---- MODULE Spec2Model ----
(***************************************************************************)
(* Model of the text diffing front end of `similar` (src/text/mod.rs):     *)
(* the TextDiffConfig builder, the TextDiff session and its queries, and   *)
(* get_close_matches.  Texts are tuples of one-character strings, tokens   *)
(* are sub-slices of a text (tuples again), indices are 0-based as in the  *)
(* source.                                                                 *)
(***************************************************************************)
EXTENDS Integers, Sequences, FiniteSets

VARIABLES config, diff, mode, out, call, rv

vars == <<config, diff, mode, out, call, rv>>

\* ------------------------------------------------------------------ bounds

\* longest token slice handed to diff_slices
MaxLen == 4

\* longest text (in characters) handed to the tokenizing constructors
MaxText == 1

\* largest context radius asked of grouped_ops
MaxRadius == 1

\* longest candidate list handed to get_close_matches
MaxCands == 2

\* largest n asked of get_close_matches
MaxN == 2

Letters == {"a", "b"}

Newline == "\n"

Chars == Letters \cup {Newline}

\* ------------------------------------------------------------- sequences

Min(x, y) == IF x <= y THEN x ELSE y

Max(x, y) == IF x >= y THEN x ELSE y

RECURSIVE SeqsUpTo(_, _)
SeqsUpTo(S, n) ==
    IF n = 0 THEN {<<>>}
    ELSE LET shorter == SeqsUpTo(S, n - 1)
         IN  shorter \cup {Append(s, x) : s \in shorter, x \in S}

RECURSIVE Flatten(_)
Flatten(ss) == IF ss = <<>> THEN <<>> ELSE Head(ss) \o Flatten(Tail(ss))

\* ------------------------------------------------------------ tokenizers

IsSpace(c) == c = Newline

\* DiffableStr::tokenize_lines: split after every terminator, the terminator
\* kept in the preceding token; a final unterminated fragment is a token.
RECURSIVE LinesFrom(_, _)
LinesFrom(text, cur) ==
    IF text = <<>> THEN (IF cur = <<>> THEN <<>> ELSE <<cur>>)
    ELSE IF Head(text) = Newline
         THEN <<Append(cur, Head(text))>> \o LinesFrom(Tail(text), <<>>)
         ELSE LinesFrom(Tail(text), Append(cur, Head(text)))

tokenize_lines(text) == LinesFrom(text, <<>>)

\* DiffableStr::tokenize_words: alternating runs of whitespace and of
\* non-whitespace.
RECURSIVE WordsFrom(_, _)
WordsFrom(text, cur) ==
    IF text = <<>> THEN (IF cur = <<>> THEN <<>> ELSE <<cur>>)
    ELSE IF cur # <<>> /\ IsSpace(Head(cur)) # IsSpace(Head(text))
         THEN <<cur>> \o WordsFrom(Tail(text), <<Head(text)>>)
         ELSE WordsFrom(Tail(text), Append(cur, Head(text)))

tokenize_words(text) == WordsFrom(text, <<>>)

\* DiffableStr::tokenize_chars: one token per character.
tokenize_chars(text) == [i \in 1..Len(text) |-> <<text[i]>>]

\* DiffableStr::tokenize_unicode_words: word boundaries of UAX #29 on the
\* model's characters: a run of letters is one word, every line feed is a
\* segment of its own.
RECURSIVE UnicodeWordsFrom(_, _)
UnicodeWordsFrom(text, cur) ==
    IF text = <<>> THEN (IF cur = <<>> THEN <<>> ELSE <<cur>>)
    ELSE IF Head(text) = Newline
         THEN (IF cur = <<>> THEN <<>> ELSE <<cur>>)
              \o <<<<Head(text)>>>> \o UnicodeWordsFrom(Tail(text), <<>>)
         ELSE UnicodeWordsFrom(Tail(text), Append(cur, Head(text)))

tokenize_unicode_words(text) == UnicodeWordsFrom(text, <<>>)

\* DiffableStr::tokenize_graphemes: on the model's characters every
\* character is a grapheme cluster.
tokenize_graphemes(text) == [i \in 1..Len(text) |-> <<text[i]>>]

\* ------------------------------------------------------------- diff hook

\* One call on the diff hook: equal(old_index, new_index, len),
\* delete(old_index, old_len, new_index), insert(old_index, new_index, new_len).
HookCall(tag, old_index, old_len, new_index, new_len) ==
    [tag |-> tag, old_index |-> old_index, old_len |-> old_len,
     new_index |-> new_index, new_len |-> new_len]

EqualCall(old_index, new_index, len) ==
    IF len = 0 THEN <<>> ELSE <<HookCall("Equal", old_index, len, new_index, len)>>

DeleteCall(old_index, old_len, new_index) ==
    IF old_len = 0 THEN <<>> ELSE <<HookCall("Delete", old_index, old_len, new_index, 0)>>

InsertCall(old_index, new_index, new_len) ==
    IF new_len = 0 THEN <<>> ELSE <<HookCall("Insert", old_index, 0, new_index, new_len)>>

\* ----------------------------------------------------------------- Myers

\* follow the diagonal from (x, y) while the tokens agree
RECURSIVE Snake(_, _, _, _)
Snake(a, b, x, y) ==
    IF x < Len(a) /\ y >= 0 /\ y < Len(b) /\ a[x + 1] = b[y + 1]
    THEN Snake(a, b, x + 1, y + 1)
    ELSE x

\* the diagonal the furthest path on diagonal k of step d comes from
MyersPrevK(V, d, k) ==
    IF k = -d \/ (k # d /\ V[k - 1] < V[k + 1]) THEN k + 1 ELSE k - 1

\* one step of the forward search: the furthest x on every diagonal of step d
MyersStep(a, b, V, d) ==
    [k \in DOMAIN V |->
        IF k >= -d /\ k <= d /\ (k + d) % 2 = 0
        THEN LET pk == MyersPrevK(V, d, k)
                 x0 == IF pk = k + 1 THEN V[pk] ELSE V[pk] + 1
             IN  Snake(a, b, x0, x0 - k)
        ELSE V[k]]

\* the forward search; returns the V of before every step, the trace
RECURSIVE MyersForward(_, _, _, _, _)
MyersForward(a, b, V, d, trace) ==
    LET V2 == MyersStep(a, b, V, d)
        done == \E k \in -d..d :
                    (k + d) % 2 = 0 /\ V2[k] = Len(a) /\ V2[k] - k = Len(b)
    IN  IF done THEN Append(trace, V)
        ELSE MyersForward(a, b, V2, d + 1, Append(trace, V))

\* walk the trace backward from (x, y); acc holds the calls after (x, y)
RECURSIVE MyersBack(_, _, _, _, _, _, _)
MyersBack(trace, d, x, y, oa, ob, acc) ==
    IF d = 0 THEN EqualCall(oa, ob, x) \o acc
    ELSE LET V  == trace[d + 1]
             k  == x - y
             pk == MyersPrevK(V, d, k)
             px == V[pk]
             py == px - pk
             sx == IF pk = k + 1 THEN px ELSE px + 1
             sy == sx - k
             edit == IF pk = k + 1
                     THEN InsertCall(oa + px, ob + py, 1)
                     ELSE DeleteCall(oa + px, 1, ob + py)
         IN  MyersBack(trace, d - 1, px, py, oa, ob,
                       edit \o EqualCall(oa + sx, ob + sy, x - sx) \o acc)

\* algorithms::myers::diff on a against b, reported with the offsets oa, ob.
\* The work cap and the divide and conquer fallback for pathological inputs
\* are out of reach of the sequences of the model and are left out.
MyersDiff(a, b, oa, ob) ==
    LET span  == Len(a) + Len(b) + 1
        V0    == [k \in -span..span |-> 0]
        trace == MyersForward(a, b, V0, 0, <<>>)
    IN  MyersBack(trace, Len(trace) - 1, Len(a), Len(b), oa, ob, <<>>)

\* -------------------------------------------------------------- Patience

Occurrences(s, t) == {i \in 1..Len(s) : s[i] = t}

\* the positions <<i, j>> of the tokens that occur exactly once in a and
\* exactly once in b, in increasing i
RECURSIVE UniqueCommon(_, _, _)
UniqueCommon(a, b, i) ==
    IF i > Len(a) THEN <<>>
    ELSE LET ina == Occurrences(a, a[i])
             inb == Occurrences(b, a[i])
         IN  (IF Cardinality(ina) = 1 /\ Cardinality(inb) = 1
              THEN <<<<i, CHOOSE j \in inb : TRUE>>>>
              ELSE <<>>)
             \o UniqueCommon(a, b, i + 1)

SetMax(S) == CHOOSE x \in S : \A y \in S : y <= x

\* length of the longest increasing run of new positions ending at pair i
RECURSIVE LisLen(_, _)
LisLen(pairs, i) ==
    LET before == {p \in 1..(i - 1) : pairs[p][2] < pairs[i][2]}
    IN  IF before = {} THEN 1
        ELSE 1 + SetMax({LisLen(pairs, p) : p \in before})

\* the longest increasing run ending at pair i, by patience sorting's back
\* pointers: the predecessor is the top of the previous pile
RECURSIVE LisBack(_, _)
LisBack(pairs, i) ==
    LET l == LisLen(pairs, i)
        prev == {p \in 1..(i - 1) :
                    pairs[p][2] < pairs[i][2] /\ LisLen(pairs, p) = l - 1}
    IN  IF l = 1 THEN <<pairs[i]>>
        ELSE Append(LisBack(pairs, SetMax(prev)), pairs[i])

\* the anchors: the longest increasing subsequence of the unique common tokens
PatienceAnchors(a, b) ==
    LET pairs == UniqueCommon(a, b, 1)
        best  == SetMax({LisLen(pairs, i) : i \in 1..Len(pairs)})
        last  == SetMax({i \in 1..Len(pairs) : LisLen(pairs, i) = best})
    IN  IF pairs = <<>> THEN <<>> ELSE LisBack(pairs, last)

RECURSIVE PatienceDiff(_, _, _, _)
RECURSIVE PatienceGaps(_, _, _, _, _, _, _, _)

\* the gaps before, between and after the anchors, diffed recursively; pa and
\* pb tokens of a and b are consumed already
PatienceGaps(a, b, oa, ob, anchors, n, pa, pb) ==
    IF n > Len(anchors)
    THEN PatienceDiff(SubSeq(a, pa + 1, Len(a)), SubSeq(b, pb + 1, Len(b)),
                      oa + pa, ob + pb)
    ELSE LET i == anchors[n][1]
             j == anchors[n][2]
         IN  PatienceDiff(SubSeq(a, pa + 1, i - 1), SubSeq(b, pb + 1, j - 1),
                          oa + pa, ob + pb)
             \o EqualCall(oa + i - 1, ob + j - 1, 1)
             \o PatienceGaps(a, b, oa, ob, anchors, n + 1, i, j)

\* algorithms::patience::diff: anchor on the unique common tokens, Myers
\* where there is none
PatienceDiff(a, b, oa, ob) ==
    LET anchors == PatienceAnchors(a, b)
    IN  IF anchors = <<>> THEN MyersDiff(a, b, oa, ob)
        ELSE PatienceGaps(a, b, oa, ob, anchors, 1, 0, 0)

\* ---------------------------------------------------- Replace and Capture

None == <<>>

Some(x) == <<x>>

DiffOp(tag, old_index, old_len, new_index, new_len) ==
    [tag |-> tag, old_index |-> old_index, old_len |-> old_len,
     new_index |-> new_index, new_len |-> new_len]

HookInit == [ops |-> <<>>, eq |-> None, del |-> None, ins |-> None]

\* Replace::flush_eq
FlushEq(h) ==
    IF h.eq = None THEN h
    ELSE [h EXCEPT !.ops = Append(@, h.eq[1]), !.eq = None]

\* Replace::flush_del_ins: a delete and an insert become one Replace
FlushDelIns(h) ==
    IF h.del # None /\ h.ins # None
    THEN [h EXCEPT !.ops = Append(@, DiffOp("Replace", h.del[1].old_index,
                                h.del[1].old_len, h.ins[1].new_index,
                                h.ins[1].new_len)),
                   !.del = None, !.ins = None]
    ELSE IF h.del # None
    THEN [h EXCEPT !.ops = Append(@, h.del[1]), !.del = None]
    ELSE IF h.ins # None
    THEN [h EXCEPT !.ops = Append(@, h.ins[1]), !.ins = None]
    ELSE h

\* Replace::equal, Replace::delete, Replace::insert over a Capture
HookStep(h, c) ==
    IF c.tag = "Equal"
    THEN LET f == FlushDelIns(h)
         IN  [f EXCEPT !.eq =
                IF f.eq = None THEN Some(c)
                ELSE Some([f.eq[1] EXCEPT !.old_len = @ + c.old_len,
                                          !.new_len = @ + c.new_len])]
    ELSE IF c.tag = "Delete"
    THEN LET f == FlushEq(h)
         IN  [f EXCEPT !.del =
                IF f.del = None THEN Some(c)
                ELSE Some([f.del[1] EXCEPT !.old_len = @ + c.old_len])]
    ELSE LET f == FlushEq(h)
         IN  [f EXCEPT !.ins =
                IF f.ins = None THEN Some(c)
                ELSE Some([f.ins[1] EXCEPT !.new_len = @ + c.new_len])]

RECURSIVE HookRun(_, _)
HookRun(h, calls) ==
    IF calls = <<>> THEN h ELSE HookRun(HookStep(h, Head(calls)), Tail(calls))

\* Replace::finish and Capture::into_ops
HookFinish(h) == FlushDelIns(FlushEq(h)).ops

\* algorithms::diff_slices: the algorithm chosen by the selector
DiffSlicesCalls(alg, old, new) ==
    IF alg = "Patience" THEN PatienceDiff(old, new, 0, 0)
    ELSE MyersDiff(old, new, 0, 0)

\* capture_diff_slices
capture_diff_slices(alg, old, new) ==
    HookFinish(HookRun(HookInit, DiffSlicesCalls(alg, old, new)))

\* ------------------------------------------------------------------ f32

\* An f32 is held as its numerator over 2^28: 0 and every f32 in [2^-5, 8)
\* are such numbers, and F32Scale is 1.0.
F32Scale == 2 ^ 28

\* the exponent e with 2^23 <= p * 2^e / q < 2^24
RECURSIVE F32Exp(_, _, _)
F32Exp(p, q, e) == IF p * (2 ^ e) >= (2 ^ 23) * q THEN e ELSE F32Exp(p, q, e + 1)

\* p as f32 / q as f32 for small integers with p / q in [2^-5, 8) or p = 0:
\* the quotient rounded to a 24 bit significand, ties to even
F32Div(p, q) ==
    IF p = 0 THEN 0
    ELSE LET e   == F32Exp(p, q, 0)
             m0  == (p * (2 ^ e)) \div q
             rem == (p * (2 ^ e)) % q
             m   == IF 2 * rem > q \/ (2 * rem = q /\ m0 % 2 = 1)
                    THEN m0 + 1 ELSE m0
         IN  m * (2 ^ (28 - e))

\* ---------------------------------------------------------------- ratio

RECURSIVE SumEqual(_)
SumEqual(ops) ==
    IF ops = <<>> THEN 0
    ELSE (IF Head(ops).tag = "Equal" THEN Head(ops).old_len ELSE 0)
         + SumEqual(Tail(ops))

\* get_diff_ratio: 2 * matches / (old_len + new_len), 1.0 for two empty inputs
get_diff_ratio(ops, old_len, new_len) ==
    LET matches == SumEqual(ops)
        len     == old_len + new_len
    IN  IF len = 0 THEN F32Scale ELSE F32Div(2 * matches, len)

\* ---------------------------------------------------------------- changes

Change(tag, old_index, new_index, value) ==
    [tag |-> tag, old_index |-> old_index, new_index |-> new_index,
     value |-> value]

\* DiffOp::iter_changes: one Change per token of the op; a Replace gives its
\* deletions, then its insertions
DiffOpIterChanges(op, old, new) ==
    IF op.tag = "Equal"
    THEN [i \in 1..op.old_len |->
            Change("Equal", Some(op.old_index + i - 1),
                   Some(op.new_index + i - 1), old[op.old_index + i])]
    ELSE [i \in 1..op.old_len |->
            Change("Delete", Some(op.old_index + i - 1), None,
                   old[op.old_index + i])]
         \o [i \in 1..op.new_len |->
            Change("Insert", None, Some(op.new_index + i - 1),
                   new[op.new_index + i])]

\* --------------------------------------------------------------- grouping

IsEqualOp(op) == op.tag = "Equal"

\* keep the last n tokens of a leading Equal run
TrimFirst(ops, n) ==
    IF ops # <<>> /\ IsEqualOp(Head(ops))
    THEN LET op     == Head(ops)
             offset == Max(op.old_len - n, 0)
         IN  IF n = 0 THEN Tail(ops)
             ELSE <<DiffOp("Equal", op.old_index + offset, op.old_len - offset,
                           op.new_index + offset, op.new_len - offset)>>
                  \o Tail(ops)
    ELSE ops

\* keep the first n tokens of a trailing Equal run
TrimLast(ops, n) ==
    IF ops # <<>> /\ IsEqualOp(ops[Len(ops)])
    THEN LET op   == ops[Len(ops)]
             keep == Min(op.old_len, n)
         IN  IF n = 0 THEN SubSeq(ops, 1, Len(ops) - 1)
             ELSE Append(SubSeq(ops, 1, Len(ops) - 1),
                         DiffOp("Equal", op.old_index, keep, op.new_index, keep))
    ELSE ops

\* the loop of group_diff_ops: an Equal run longer than 2n ends the pending
\* group with its first n tokens and starts the next with its last n
RECURSIVE GroupLoop(_, _, _, _)
GroupLoop(ops, n, pending, groups) ==
    IF ops = <<>>
    THEN (IF pending = <<>> \/ (Len(pending) = 1 /\ IsEqualOp(pending[1]))
          THEN groups
          ELSE Append(groups, pending))
    ELSE LET op == Head(ops)
         IN  IF IsEqualOp(op) /\ op.old_len > 2 * n
             THEN LET offset == op.old_len - n
                  IN  GroupLoop(Tail(ops), n,
                        <<DiffOp("Equal", op.old_index + offset, n,
                                 op.new_index + offset, n)>>,
                        Append(groups,
                               Append(pending, DiffOp("Equal", op.old_index, n,
                                                      op.new_index, n))))
             ELSE GroupLoop(Tail(ops), n, Append(pending, op), groups)

\* group_diff_ops
group_diff_ops(ops, n) == GroupLoop(TrimLast(TrimFirst(ops, n), n), n, <<>>, <<>>)

\* ------------------------------------------------------------ the inputs

\* the texts handed to diff_lines, diff_words, diff_chars, ...
Texts ==
    SeqsUpTo(Chars, MaxText)
    \cup {<<"a", Newline, "b">>, <<"a", Newline, "a", Newline>>}

\* the token slices handed to diff_slices
Slices == SeqsUpTo({<<c>> : c \in Letters}, MaxLen)

Algorithms == {"Myers", "Patience"}

\* ------------------------------------------------------- TextDiffConfig

\* TextDiffConfig::default
ConfigDefault == [algorithm |-> "Myers", newline_terminated |-> None]

\* a diff that hands the old slice to the algorithm twice
TextDiffConfigDiffOldTwice(cfg, old, new, newline_terminated) ==
    [old |-> old, new |-> new,
     ops |-> capture_diff_slices(cfg.algorithm, old, old),
     newline_terminated |->
        IF cfg.newline_terminated # None THEN cfg.newline_terminated[1]
        ELSE newline_terminated,
     algorithm |-> cfg.algorithm]

\* a diff that hands the slices to the algorithm in the wrong order
TextDiffConfigDiffSwapped(cfg, old, new, newline_terminated) ==
    [old |-> old, new |-> new,
     ops |-> capture_diff_slices(cfg.algorithm, new, old),
     newline_terminated |->
        IF cfg.newline_terminated # None THEN cfg.newline_terminated[1]
        ELSE newline_terminated,
     algorithm |-> cfg.algorithm]

\* a diff that takes the constructor's flag whatever the configuration says
TextDiffConfigDiffIgnoresFlag(cfg, old, new, newline_terminated) ==
    [old |-> old, new |-> new,
     ops |-> capture_diff_slices(cfg.algorithm, old, new),
     newline_terminated |-> newline_terminated,
     algorithm |-> cfg.algorithm]

\* TextDiffConfig::diff: the ops are captured, the flag is the configured one
\* or else the constructor's
TextDiffConfigDiff(cfg, old, new, newline_terminated) ==
    [old |-> old, new |-> new,
     ops |-> capture_diff_slices(cfg.algorithm, old, new),
     newline_terminated |->
        IF cfg.newline_terminated # None THEN cfg.newline_terminated[1]
        ELSE newline_terminated,
     algorithm |-> cfg.algorithm]

\* A behaviour follows one configuration and the one session built from it
\* (config, diff, the constructor used in mode, the last query's result in
\* out), or one call of get_close_matches (its arguments in call, its result
\* in rv).
Init ==
    /\ config = ConfigDefault
    /\ diff = None
    /\ mode = "none"
    /\ out = [op |-> "none"]
    /\ call = None
    /\ rv = None

\* TextDiffConfig::algorithm
SetAlgorithm ==
    /\ diff = None
    /\ \E alg \in Algorithms : config' = [config EXCEPT !.algorithm = alg]
    /\ UNCHANGED <<diff, mode, out, call, rv>>

\* TextDiffConfig::newline_terminated
SetNewlineTerminated ==
    /\ diff = None
    /\ \E yes \in BOOLEAN :
          config' = [config EXCEPT !.newline_terminated = Some(yes)]
    /\ UNCHANGED <<diff, mode, out, call, rv>>

\* TextDiffConfig::diff_lines
DiffLines ==
    /\ diff = None
    /\ \E old \in Texts, new \in Texts :
          diff' = Some(TextDiffConfigDiff(config, tokenize_lines(old),
                                          tokenize_lines(new), TRUE))
    /\ mode' = "lines"
    /\ UNCHANGED <<config, out, call, rv>>

\* TextDiffConfig::diff_words
DiffWords ==
    /\ diff = None
    /\ \E old \in Texts, new \in Texts :
          diff' = Some(TextDiffConfigDiff(config, tokenize_words(old),
                                          tokenize_words(new), FALSE))
    /\ mode' = "words"
    /\ UNCHANGED <<config, out, call, rv>>

\* TextDiffConfig::diff_chars
DiffChars ==
    /\ diff = None
    /\ \E old \in Texts, new \in Texts :
          diff' = Some(TextDiffConfigDiff(config, tokenize_chars(old),
                                          tokenize_chars(new), FALSE))
    /\ mode' = "chars"
    /\ UNCHANGED <<config, out, call, rv>>

\* TextDiffConfig::diff_unicode_words
DiffUnicodeWords ==
    /\ diff = None
    /\ \E old \in Texts, new \in Texts :
          diff' = Some(TextDiffConfigDiff(config, tokenize_unicode_words(old),
                                          tokenize_unicode_words(new), FALSE))
    /\ mode' = "unicode_words"
    /\ UNCHANGED <<config, out, call, rv>>

\* TextDiffConfig::diff_graphemes
DiffGraphemes ==
    /\ diff = None
    /\ \E old \in Texts, new \in Texts :
          diff' = Some(TextDiffConfigDiff(config, tokenize_graphemes(old),
                                          tokenize_graphemes(new), FALSE))
    /\ mode' = "graphemes"
    /\ UNCHANGED <<config, out, call, rv>>

\* TextDiffConfig::diff_slices
DiffSlices ==
    /\ diff = None
    /\ \E old \in Slices, new \in Slices :
          diff' = Some(TextDiffConfigDiff(config, old, new, FALSE))
    /\ mode' = "slices"
    /\ UNCHANGED <<config, out, call, rv>>

\* ------------------------------------------------------------- TextDiff

\* TextDiff::ops
TextDiffOps(d) == d.ops

\* a ratio that takes the length of old for both lengths
TextDiffRatioOldLenTwice(d) ==
    get_diff_ratio(TextDiffOps(d), Len(d.old), Len(d.old))

\* TextDiff::ratio
TextDiffRatio(d) == get_diff_ratio(TextDiffOps(d), Len(d.old), Len(d.new))

\* TextDiff::iter_changes
TextDiffIterChanges(d, op) == DiffOpIterChanges(op, d.old, d.new)

\* grouped_ops with a radius one too wide
TextDiffGroupedOpsWider(d, n) == group_diff_ops(TextDiffOps(d), n + 1)

\* TextDiff::grouped_ops
TextDiffGroupedOps(d, n) == group_diff_ops(TextDiffOps(d), n)

\* iter_all_changes that expands only the ops that are not Equal
TextDiffIterAllChangesNoEqual(d) ==
    Flatten([i \in 1..Len(TextDiffOps(d)) |->
                IF TextDiffOps(d)[i].tag = "Equal" THEN <<>>
                ELSE TextDiffIterChanges(d, TextDiffOps(d)[i])])

\* TextDiff::iter_all_changes
TextDiffIterAllChanges(d) ==
    Flatten([i \in 1..Len(TextDiffOps(d)) |->
                TextDiffIterChanges(d, TextDiffOps(d)[i])])

Ratio ==
    /\ diff # None
    /\ out' = [op |-> "ratio", val |-> TextDiffRatio(diff[1])]
    /\ UNCHANGED <<config, diff, mode, call, rv>>

GroupedOps ==
    /\ diff # None
    /\ \E n \in 0..MaxRadius :
          out' = [op |-> "grouped_ops", n |-> n,
                  val |-> TextDiffGroupedOps(diff[1], n)]
    /\ UNCHANGED <<config, diff, mode, call, rv>>

IterAllChanges ==
    /\ diff # None
    /\ out' = [op |-> "iter_all_changes", val |-> TextDiffIterAllChanges(diff[1])]
    /\ UNCHANGED <<config, diff, mode, call, rv>>

\* TextDiff::newline_terminated
TextDiffNewlineTerminated(d) == d.newline_terminated

NewlineTerminated ==
    /\ diff # None
    /\ out' = [op |-> "newline_terminated",
               val |-> TextDiffNewlineTerminated(diff[1])]
    /\ UNCHANGED <<config, diff, mode, call, rv>>

\* A session under either algorithm and its queries.
Next ==
    \/ SetAlgorithm
    \/ DiffLines
    \/ DiffWords
    \/ DiffChars
    \/ DiffUnicodeWords
    \/ DiffGraphemes
    \/ DiffSlices
    \/ Ratio
    \/ GroupedOps
    \/ IterAllChanges

Spec == Init /\ [][Next]_vars

\* The configuration in full, the constructors and the session's flag.
NextConfig ==
    \/ SetAlgorithm
    \/ SetNewlineTerminated
    \/ DiffLines
    \/ DiffWords
    \/ DiffChars
    \/ DiffUnicodeWords
    \/ DiffGraphemes
    \/ DiffSlices
    \/ NewlineTerminated

SpecConfig == Init /\ [][NextConfig]_vars

\* ------------------------------------------------------- close matches

\* utils::upper_seq_ratio: the ratio two sequences of these lengths reach at
\* best
upper_seq_ratio(seq1, seq2) ==
    LET n == Len(seq1) + Len(seq2)
    IN  IF n = 0 THEN F32Scale ELSE F32Div(2 * Min(Len(seq1), Len(seq2)), n)

\* utils::QuickSeqRatio::new: how often every token occurs in the query
QuickSeqRatioNew(seq) ==
    [t \in {seq[i] : i \in 1..Len(seq)} |-> Cardinality(Occurrences(seq, t))]

\* the tokens of seq that the counts still cover, each use taking one
RECURSIVE QuickMatches(_, _)
QuickMatches(available, seq) ==
    IF seq = <<>> THEN 0
    ELSE LET t == Head(seq)
             x == IF t \in DOMAIN available THEN available[t] ELSE 0
         IN  (IF x > 0 THEN 1 ELSE 0)
             + QuickMatches([u \in DOMAIN available \cup {t} |->
                                IF u = t THEN x - 1 ELSE available[u]],
                            Tail(seq))

\* utils::QuickSeqRatio::calc: the ratio of the multiset intersection, over
\* the two lengths as the exact ratio is
QuickSeqRatioCalc(counts, len1, seq) ==
    LET n == len1 + Len(seq)
    IN  IF n = 0 THEN F32Scale ELSE F32Div(2 * QuickMatches(counts, seq), n)

\* the order of the characters
CharOrd(c) == IF c = Newline THEN 0 ELSE IF c = "a" THEN 1 ELSE 2

\* Ord for str: lexicographic
RECURSIVE StrLess(_, _)
StrLess(s, t) ==
    IF t = <<>> THEN FALSE
    ELSE IF s = <<>> THEN TRUE
    ELSE IF Head(s) # Head(t) THEN CharOrd(Head(s)) < CharOrd(Head(t))
    ELSE StrLess(Tail(s), Tail(t))

\* (ratio * u32::MAX as f32) as u32: u32::MAX as f32 is 2^32, the product is
\* exact and the cast saturates; the u32 is held as its two 16 bit halves
HeapKey(ratio) ==
    IF ratio >= F32Scale THEN <<65535, 65535>>
    ELSE <<ratio \div (2 ^ 12), (ratio % (2 ^ 12)) * 16>>

KeyLess(k1, k2) == k1[1] < k2[1] \/ (k1[1] = k2[1] /\ k1[2] < k2[2])

\* the heap order without the Reverse around the word
EntryLessNoReverse(x, y) ==
    KeyLess(x.key, y.key) \/ (x.key = y.key /\ StrLess(x.word, y.word))

\* the heap order on the key alone
EntryLessKeyOnly(x, y) == KeyLess(x.key, y.key)

\* Ord for (u32, Reverse<&T>)
EntryLess(x, y) ==
    KeyLess(x.key, y.key) \/ (x.key = y.key /\ StrLess(y.word, x.word))

\* BinaryHeap::push
HeapPush(heap, entry) == Append(heap, entry)

\* BinaryHeap::pop: the position of a greatest entry
HeapTop(heap) ==
    CHOOSE i \in 1..Len(heap) : \A j \in 1..Len(heap) : ~EntryLess(heap[i], heap[j])

HeapRemove(heap, i) == SubSeq(heap, 1, i - 1) \o SubSeq(heap, i + 1, Len(heap))

\* the loop without the test of the exact ratio against the cutoff
RECURSIVE MatchLoopNoExactTest(_, _, _, _, _)
MatchLoopNoExactTest(seq1, quick_ratio, possibilities, cutoff, matches) ==
    IF possibilities = <<>> THEN matches
    ELSE LET possibility == Head(possibilities)
             seq2 == tokenize_chars(possibility)
             d == TextDiffConfigDiff(ConfigDefault, seq1, seq2, FALSE)
             ratio == TextDiffRatio(d)
         IN  IF upper_seq_ratio(seq1, seq2) < cutoff
                \/ QuickSeqRatioCalc(quick_ratio, Len(seq1), seq2) < cutoff
             THEN MatchLoopNoExactTest(seq1, quick_ratio, Tail(possibilities),
                                       cutoff, matches)
             ELSE MatchLoopNoExactTest(seq1, quick_ratio, Tail(possibilities),
                                       cutoff,
                                       HeapPush(matches, [key |-> HeapKey(ratio),
                                                          word |-> possibility]))

\* the loop with bounds that reject a candidate at the cutoff itself
RECURSIVE MatchLoopBoundsAtCutoff(_, _, _, _, _)
MatchLoopBoundsAtCutoff(seq1, quick_ratio, possibilities, cutoff, matches) ==
    IF possibilities = <<>> THEN matches
    ELSE LET possibility == Head(possibilities)
             seq2 == tokenize_chars(possibility)
             d == TextDiffConfigDiff(ConfigDefault, seq1, seq2, FALSE)
             ratio == TextDiffRatio(d)
         IN  IF upper_seq_ratio(seq1, seq2) <= cutoff
                \/ QuickSeqRatioCalc(quick_ratio, Len(seq1), seq2) <= cutoff
             THEN MatchLoopBoundsAtCutoff(seq1, quick_ratio, Tail(possibilities),
                                          cutoff, matches)
             ELSE IF ratio >= cutoff
             THEN MatchLoopBoundsAtCutoff(seq1, quick_ratio, Tail(possibilities),
                                          cutoff,
                                          HeapPush(matches, [key |-> HeapKey(ratio),
                                                             word |-> possibility]))
             ELSE MatchLoopBoundsAtCutoff(seq1, quick_ratio, Tail(possibilities),
                                          cutoff, matches)

\* the loop over the possibilities: the two cheap bounds first, then the diff
RECURSIVE MatchLoop(_, _, _, _, _)
MatchLoop(seq1, quick_ratio, possibilities, cutoff, matches) ==
    IF possibilities = <<>> THEN matches
    ELSE LET possibility == Head(possibilities)
             seq2 == tokenize_chars(possibility)
             d == TextDiffConfigDiff(ConfigDefault, seq1, seq2, FALSE)
             ratio == TextDiffRatio(d)
         IN  IF upper_seq_ratio(seq1, seq2) < cutoff
                \/ QuickSeqRatioCalc(quick_ratio, Len(seq1), seq2) < cutoff
             THEN MatchLoop(seq1, quick_ratio, Tail(possibilities), cutoff, matches)
             ELSE IF ratio >= cutoff
             THEN MatchLoop(seq1, quick_ratio, Tail(possibilities), cutoff,
                            HeapPush(matches, [key |-> HeapKey(ratio),
                                               word |-> possibility]))
             ELSE MatchLoop(seq1, quick_ratio, Tail(possibilities), cutoff, matches)

\* the n pops
RECURSIVE PopLoop(_, _, _)
PopLoop(matches, n, acc) ==
    IF n = 0 \/ matches = <<>> THEN acc
    ELSE LET i == HeapTop(matches)
         IN  PopLoop(HeapRemove(matches, i), n - 1, Append(acc, matches[i].word))

\* get_close_matches
get_close_matches(word, possibilities, n, cutoff) ==
    LET seq1 == tokenize_chars(word)
        quick_ratio == QuickSeqRatioNew(seq1)
    IN  PopLoop(MatchLoop(seq1, quick_ratio, possibilities, cutoff, <<>>), n, <<>>)

\* the words get_close_matches is asked about and chooses among
Pool ==
    {<<>>, <<"a">>, <<"b">>, <<"a", "a">>, <<"a", "b">>, <<"b", "a">>,
     <<"b", "b">>, <<"a", "b", "a">>}

Queries == {<<>>, <<"a", "b">>}

\* the cutoffs: 0.0, 0.6 and 1.0 as f32
Cutoffs == {0, F32Div(3, 5), F32Scale}

GetCloseMatches ==
    /\ call = None
    /\ \E word \in Queries, possibilities \in SeqsUpTo(Pool, MaxCands),
          n \in 0..MaxN, cutoff \in Cutoffs :
          /\ call' = Some([word |-> word, possibilities |-> possibilities,
                           n |-> n, cutoff |-> cutoff])
          /\ rv' = Some(get_close_matches(word, possibilities, n, cutoff))
    /\ UNCHANGED <<config, diff, mode, out>>

NextMatch == GetCloseMatches

SpecMatch == Init /\ [][NextMatch]_vars

\* ================================================================ claims

\* the exact character-level ratio of a candidate against the query
ExactRatio(word, possibility) ==
    TextDiffRatio(TextDiffConfigDiff(ConfigDefault, tokenize_chars(word),
                                     tokenize_chars(possibility), FALSE))

CountIn(seq, x) == Cardinality({i \in 1..Len(seq) : seq[i] = x})

\* the positions of the candidates of a call that reach the cutoff
Qualifying(c) ==
    {j \in 1..Len(c.possibilities) :
        ExactRatio(c.word, c.possibilities[j]) >= c.cutoff}

\* C1: get_close_matches returns at most n elements, each one of the given
\* candidates whose exact ratio against the query reaches the cutoff; with
\* n = 0 it returns the empty list.
C1_AtMostNAboveCutoff ==
    rv # None =>
        LET c == call[1]
            r == rv[1]
        IN  /\ Len(r) <= c.n
            /\ \A i \in 1..Len(r) :
                  /\ \E j \in 1..Len(c.possibilities) : c.possibilities[j] = r[i]
                  /\ ExactRatio(c.word, r[i]) >= c.cutoff
            /\ (c.n = 0 => r = <<>>)

\* C1 witness: a call with n >= 1 that returns a candidate and leaves out one
\* that is below the cutoff.
C1_Witness ==
    /\ rv # None
    /\ call[1].n >= 1
    /\ Len(rv[1]) >= 1
    /\ \E j \in 1..Len(call[1].possibilities) : j \notin Qualifying(call[1])

\* x is ranked no later than y: a greater ratio, or the same ratio and a
\* content that is not greater
RankedBefore(word, x, y) ==
    \/ ExactRatio(word, x) > ExactRatio(word, y)
    \/ (ExactRatio(word, x) = ExactRatio(word, y) /\ ~StrLess(y, x))

RECURSIVE ReferenceLoop(_, _, _, _)
ReferenceLoop(word, possibilities, cutoff, matches) ==
    IF possibilities = <<>> THEN matches
    ELSE ReferenceLoop(word, Tail(possibilities), cutoff,
            IF ExactRatio(word, Head(possibilities)) >= cutoff
            THEN Append(matches,
                        [key |-> HeapKey(ExactRatio(word, Head(possibilities))),
                         word |-> Head(possibilities)])
            ELSE matches)

\* C3: both cheap bounds are at least the exact ratio, so that the result
\* is the one of a search that diffs every candidate.
C3_BoundsNeverReject ==
    rv # None =>
        LET c == call[1]
            seq1 == tokenize_chars(c.word)
        IN  /\ \A j \in 1..Len(c.possibilities) :
                  LET seq2 == tokenize_chars(c.possibilities[j])
                      exact == ExactRatio(c.word, c.possibilities[j])
                  IN  /\ upper_seq_ratio(seq1, seq2) >= exact
                      /\ QuickSeqRatioCalc(QuickSeqRatioNew(seq1), Len(seq1), seq2)
                            >= exact
            /\ rv[1] = PopLoop(ReferenceLoop(c.word, c.possibilities, c.cutoff, <<>>),
                               c.n, <<>>)

\* C3 witness: a call in which a bound rejects one candidate before any diff
\* and another candidate is returned.
C3_Witness ==
    /\ rv # None
    /\ Len(rv[1]) >= 1
    /\ \E j \in 1..Len(call[1].possibilities) :
          LET seq1 == tokenize_chars(call[1].word)
              seq2 == tokenize_chars(call[1].possibilities[j])
          IN  \/ upper_seq_ratio(seq1, seq2) < call[1].cutoff
              \/ QuickSeqRatioCalc(QuickSeqRatioNew(seq1), Len(seq1), seq2)
                    < call[1].cutoff

IndexPermutations(k) ==
    {f \in [1..k -> 1..k] : \A i \in 1..k, j \in 1..k : f[i] = f[j] => i = j}

\* C10: the result is the same for every permutation of the candidate list,
\* duplicates included.
C10_OrderOfCandidatesIrrelevant ==
    rv # None =>
        LET c == call[1]
            k == Len(c.possibilities)
        IN  \A f \in IndexPermutations(k) :
                get_close_matches(c.word, [i \in 1..k |-> c.possibilities[f[i]]],
                                  c.n, c.cutoff) = rv[1]

\* C10 witness: two distinct qualifying candidates with the same heap key,
\* n = 1, and the one returned is the one given second.
C10_Witness ==
    /\ rv # None
    /\ call[1].n = 1
    /\ Len(call[1].possibilities) = 2
    /\ Qualifying(call[1]) = {1, 2}
    /\ call[1].possibilities[1] # call[1].possibilities[2]
    /\ HeapKey(ExactRatio(call[1].word, call[1].possibilities[1]))
          = HeapKey(ExactRatio(call[1].word, call[1].possibilities[2]))
    /\ rv[1] # <<call[1].possibilities[1]>>

\* the tokens the Equal ops of a session classify as matching
RECURSIVE EqualTokens(_, _)
EqualTokens(ops, i) ==
    IF i > Len(ops) THEN 0
    ELSE (IF ops[i].tag = "Equal" THEN ops[i].new_len ELSE 0)
         + EqualTokens(ops, i + 1)

\* num / 2^28 is the f32 nearest to p / q (0 < p <= q): some significand m of
\* 24 bits and exponent e give num = m * 2^(28 - e) with |m / 2^e - p / q| at
\* most half a unit of the last place
NearestF32(num, p, q) ==
    \E e \in 23..28 :
        LET unit == 2 ^ (28 - e)
            m    == num \div unit
        IN  /\ num % unit = 0
            /\ m >= 2 ^ 23
            /\ m <= 2 ^ 24
            /\ 2 ^ e >= (2 * m * q - q + 2 * p - 1) \div (2 * p)
            /\ 2 ^ e <= (2 * m * q + q) \div (2 * p)

\* C4: the ratio of a session is 2 * M / (len(old) + len(new)), M the tokens
\* of its Equal ops, as an f32; it is 1.0 when both sequences are empty.
C4_RatioIsTwiceMatchesOverTotal ==
    (diff # None /\ out.op = "ratio") =>
        LET d == diff[1]
            total == Len(d.old) + Len(d.new)
            matches == EqualTokens(d.ops, 1)
        IN  IF total = 0 THEN out.val = F32Scale
            ELSE IF matches = 0 THEN out.val = 0
            ELSE /\ NearestF32(out.val, 2 * matches, total)
                 /\ (F32Scale % total = 0
                        => out.val = 2 * matches * (F32Scale \div total))

\* C4 witness: the ratio of a session with matching and with differing
\* tokens, a Replace among its ops, and sequences of different lengths.
C4_Witness ==
    /\ diff # None
    /\ out.op = "ratio"
    /\ Len(diff[1].old) # Len(diff[1].new)
    /\ EqualTokens(diff[1].ops, 1) > 0
    /\ \E i \in 1..Len(diff[1].ops) : diff[1].ops[i].tag = "Replace"
    /\ out.val < F32Scale

\* C5: the ratio lies in [0, 1], and a session of a sequence against itself
\* has only Equal ops and the ratio 1.0, under either algorithm.
C5_RatioBounds ==
    (diff # None /\ out.op = "ratio") =>
        /\ out.val >= 0
        /\ out.val <= F32Scale
        /\ (diff[1].old = diff[1].new =>
                /\ out.val = F32Scale
                /\ \A i \in 1..Len(TextDiffOps(diff[1])) :
                      TextDiffOps(diff[1])[i].tag = "Equal")

\* C5 witness: the ratio of a non-empty sequence against itself under
\* Patience.
C5_Witness ==
    /\ diff # None
    /\ out.op = "ratio"
    /\ diff[1].old = diff[1].new
    /\ Len(diff[1].old) >= 2
    /\ diff[1].algorithm = "Patience"

\* an op has the shape of its tag
WellShaped(op) ==
    /\ op.tag \in {"Equal", "Delete", "Insert", "Replace"}
    /\ op.tag = "Equal" => (op.old_len = op.new_len /\ op.old_len > 0)
    /\ op.tag = "Delete" => (op.old_len > 0 /\ op.new_len = 0)
    /\ op.tag = "Insert" => (op.old_len = 0 /\ op.new_len > 0)
    /\ op.tag = "Replace" => (op.old_len > 0 /\ op.new_len > 0)

\* C6: the ops of a session are in increasing index order and partition
\* [0, |old|) and [0, |new|) with no gap and no overlap, and no two adjacent
\* ops have the same tag, under either algorithm.
C6_OpsPartition ==
    diff # None =>
        LET d == diff[1]
            ops == TextDiffOps(d)
        IN  /\ \A i \in 1..Len(ops) : WellShaped(ops[i])
            /\ (ops = <<>> => (Len(d.old) = 0 /\ Len(d.new) = 0))
            /\ (ops # <<>> =>
                  /\ ops[1].old_index = 0
                  /\ ops[1].new_index = 0
                  /\ ops[Len(ops)].old_index + ops[Len(ops)].old_len = Len(d.old)
                  /\ ops[Len(ops)].new_index + ops[Len(ops)].new_len = Len(d.new))
            /\ \A i \in 1..(Len(ops) - 1) :
                  /\ ops[i + 1].old_index = ops[i].old_index + ops[i].old_len
                  /\ ops[i + 1].new_index = ops[i].new_index + ops[i].new_len
                  /\ ops[i + 1].tag # ops[i].tag

\* C6 witness: a session under Patience with an Equal, a Replace and a third
\* op, on sequences of different lengths.
C6_Witness ==
    /\ diff # None
    /\ diff[1].algorithm = "Patience"
    /\ Len(diff[1].ops) >= 3
    /\ Len(diff[1].old) # Len(diff[1].new)
    /\ \E i \in 1..Len(diff[1].ops) : diff[1].ops[i].tag = "Replace"
    /\ \E i \in 1..Len(diff[1].ops) : diff[1].ops[i].tag = "Equal"

RECURSIVE ValuesWithout(_, _)
ValuesWithout(changes, tag) ==
    IF changes = <<>> THEN <<>>
    ELSE (IF Head(changes).tag = tag THEN <<>> ELSE <<Head(changes).value>>)
         \o ValuesWithout(Tail(changes), tag)

\* C7: the changes of iter_all_changes give back old when the insertions are
\* left out and new when the deletions are left out; an Equal change pairs
\* tokens equal by content.
C7_ChangesReconstruct ==
    (diff # None /\ out.op = "iter_all_changes") =>
        LET d == diff[1]
            changes == out.val
        IN  /\ ValuesWithout(changes, "Insert") = d.old
            /\ ValuesWithout(changes, "Delete") = d.new
            /\ \A i \in 1..Len(changes) :
                  changes[i].tag = "Equal" =>
                      /\ changes[i].old_index # None
                      /\ changes[i].new_index # None
                      /\ d.old[changes[i].old_index[1] + 1] = changes[i].value
                      /\ d.new[changes[i].new_index[1] + 1] = changes[i].value

\* C7 witness: the changes of a session hold an Equal, a Delete and an
\* Insert, the Equal one not first.
C7_Witness ==
    /\ diff # None
    /\ out.op = "iter_all_changes"
    /\ Len(out.val) >= 3
    /\ out.val[1].tag # "Equal"
    /\ \E i \in 1..Len(out.val) : out.val[i].tag = "Equal"
    /\ \E i \in 1..Len(out.val) : out.val[i].tag = "Delete"
    /\ \E i \in 1..Len(out.val) : out.val[i].tag = "Insert"

\* the flag a constructor gives when the configuration sets none
AutomaticFlag(m) == m = "lines"

RECURSIVE Changes(_)
Changes(ops) ==
    IF ops = <<>> THEN <<>>
    ELSE (IF Head(ops).tag = "Equal" THEN <<>> ELSE <<Head(ops)>>)
         \o Changes(Tail(ops))

\* the tokens [from, from + len) of an Equal op, as an Equal op
Window(op, from, len) ==
    DiffOp("Equal", op.old_index + from, len, op.new_index + from, len)

\* what the op at position i becomes in the flattened groups of radius n
Context(ops, i, n) ==
    LET op == ops[i]
    IN  IF op.tag # "Equal" THEN <<op>>
        ELSE IF i = 1
        THEN (IF n = 0 THEN <<>>
              ELSE <<Window(op, Max(op.old_len - n, 0), Min(op.old_len, n))>>)
        ELSE IF i = Len(ops)
        THEN (IF n = 0 THEN <<>> ELSE <<Window(op, 0, Min(op.old_len, n))>>)
        ELSE IF op.old_len > 2 * n
        THEN <<Window(op, 0, n), Window(op, op.old_len - n, n)>>
        ELSE <<op>>

\* the interior Equal runs longer than 2n
LongRuns(ops, n) ==
    {i \in 2..(Len(ops) - 1) : ops[i].tag = "Equal" /\ ops[i].old_len > 2 * n}

\* C9: the groups of grouped_ops(n), flattened, hold every non-Equal op of
\* the session once, unchanged and in order, and Equal ops that are
\* sub-ranges of the session's: a leading or trailing run cut to at most n
\* tokens next to the change (none for n = 0), an interior run longer than
\* 2n cut to n tokens on each side with a new group starting between them,
\* an interior run of at most 2n tokens whole inside one group.
C9_GroupsKeepChangesCutContext ==
    (diff # None /\ out.op = "grouped_ops") =>
        LET ops    == TextDiffOps(diff[1])
            n      == out.n
            groups == out.val
            flat   == Flatten(groups)
        IN  /\ Changes(flat) = Changes(ops)
            /\ \A i \in 1..Len(flat) :
                  flat[i].tag = "Equal" =>
                      \E j \in 1..Len(ops) :
                          /\ ops[j].tag = "Equal"
                          /\ flat[i].old_len = flat[i].new_len
                          /\ flat[i].old_index >= ops[j].old_index
                          /\ flat[i].old_index + flat[i].old_len
                                <= ops[j].old_index + ops[j].old_len
                          /\ flat[i].new_index - flat[i].old_index
                                = ops[j].new_index - ops[j].old_index
            /\ flat = IF Changes(ops) = <<>> THEN <<>>
                      ELSE Flatten([i \in 1..Len(ops) |-> Context(ops, i, n)])
            /\ Len(groups) = IF Changes(ops) = <<>> THEN 0
                             ELSE 1 + Cardinality(LongRuns(ops, n))
            /\ \A g \in 1..Len(groups) : Changes(groups[g]) # <<>>
            /\ \A g \in 2..Len(groups) :
                  \E i \in LongRuns(ops, n) :
                      /\ groups[g - 1][Len(groups[g - 1])] = Window(ops[i], 0, n)
                      /\ groups[g][1] = Window(ops[i], ops[i].old_len - n, n)

\* C9 witness: radius 1 on a session whose ops are a change, an Equal run of
\* three tokens and a change: two groups, one token of context in each.
C9_Witness ==
    /\ diff # None
    /\ out.op = "grouped_ops"
    /\ out.n = 1
    /\ Len(out.val) = 2
    /\ Len(diff[1].ops) = 3
    /\ diff[1].ops[2].tag = "Equal"
    /\ diff[1].ops[2].old_len = 3

====
